---- MODULE Spec2Model ----
(***************************************************************************)
(* A model of xrspatial/hillshade.py: the host kernel (_run_numpy), the    *)
(* tiled executor (_run_dask_numpy, dask map_overlap with depth 1 and a    *)
(* NaN boundary), the device kernel (_gpu_calc_numba launched by           *)
(* _run_cupy) and the dispatcher (hillshade).                              *)
(*                                                                         *)
(* Floating point.  A float is a record [k, v]: k = "fin" with v twice the *)
(* value (elevations are whole numbers, so every difference and every      *)
(* halved difference is exact), k = "inf" with v the sign, k = "nan".      *)
(* The trigonometric part of the illumination formula is carried out on    *)
(* IEEE classes ("nan", "pinf", "ninf", "fin"); a finite result is kept as *)
(* the term of its arguments (gradients, lighting, precision).             *)
(*                                                                         *)
(* Arrays are records [shape, a] with a a function on 0-based coordinates. *)
(***************************************************************************)
EXTENDS Integers, Sequences, FiniteSets, TLC

VARIABLES agg, mem, has_cuda, cupy_ok, azimuth, angle_altitude, name,
          pc, ret, exc, kernels, pre, done, reads, writes, bwritten

vars == <<agg, mem, has_cuda, cupy_ok, azimuth, angle_altitude, name,
          pc, ret, exc, kernels, pre, done, reads, writes, bwritten>>

\* ------------------------------------------------------------- bounds
MaxRows == 3
MaxCols == 3
TileMaxRows == 3
TileMaxCols == 3
MaxChunks == 2
DevMaxRows == 3
DevMaxCols == 3

\* ------------------------------------------------------------- floats
NaN == [k |-> "nan", v |-> 0]
PInf == [k |-> "inf", v |-> 1]
NInf == [k |-> "inf", v |-> -1]
Fin(n) == [k |-> "fin", v |-> n]

IsNaN(a) == a.k = "nan"
IsInf(a) == a.k = "inf"

\* a - b in IEEE arithmetic
FSub(a, b) ==
    IF IsNaN(a) \/ IsNaN(b) THEN NaN
    ELSE IF IsInf(a) /\ IsInf(b) THEN (IF a.v = b.v THEN NaN ELSE a)
    ELSE IF IsInf(a) THEN a
    ELSE IF IsInf(b) THEN [k |-> "inf", v |-> 0 - b.v]
    ELSE Fin(a.v - b.v)

\* a / 2 (exact: the finite operands are differences of whole numbers)
FHalf(a) == IF a.k = "fin" THEN Fin(a.v \div 2) ELSE a

\* the IEEE class of a float
Cls(a) == IF IsNaN(a) THEN "nan"
          ELSE IF IsInf(a) THEN (IF a.v > 0 THEN "pinf" ELSE "ninf")
          ELSE "fin"

CNeg(c) == IF c = "pinf" THEN "ninf" ELSE IF c = "ninf" THEN "pinf" ELSE c
\* c * c
CSq(c) == IF c = "nan" THEN "nan" ELSE IF c = "fin" THEN "fin" ELSE "pinf"
CAdd(c, d) ==
    IF c = "nan" \/ d = "nan" THEN "nan"
    ELSE IF c = "fin" THEN d
    ELSE IF d = "fin" THEN c
    ELSE IF c = d THEN c ELSE "nan"
CSub(c, d) == CAdd(c, CNeg(d))
\* a product of operands of which at most one is infinite and none is zero
\* when the other is infinite (the kernels multiply sines and cosines only)
CMul(c, d) ==
    IF c = "nan" \/ d = "nan" THEN "nan"
    ELSE IF c = "fin" THEN d
    ELSE IF d = "fin" THEN c
    ELSE IF c = d THEN "pinf" ELSE "ninf"
CSqrt(c) == IF c = "ninf" THEN "nan" ELSE c
CAtan(c) == IF c = "nan" THEN "nan" ELSE "fin"
CAtan2(c, d) == IF c = "nan" \/ d = "nan" THEN "nan" ELSE "fin"
CSin(c) == IF c = "fin" THEN "fin" ELSE "nan"
CCos(c) == IF c = "fin" THEN "fin" ELSE "nan"

\* an output cell: NaN, or the finite illumination of gradients x, y under
\* the lighting (az, alt: degrees) at precision p (64 or 32 bits)
NaNOut == [k |-> "nan", x |-> NaN, y |-> NaN, az |-> 0, alt |-> 0, p |-> 0]
Value(c, x, y, az, alt, p) ==
    IF c = "fin" THEN [k |-> "fin", x |-> x, y |-> y, az |-> az, alt |-> alt, p |-> p]
    ELSE IF c = "nan" THEN NaNOut
    ELSE [k |-> c, x |-> x, y |-> y, az |-> az, alt |-> alt, p |-> p]

\* ------------------------------------------------------------- arrays
Cells(R, C) == (0 .. R - 1) \X (0 .. C - 1)
Array(R, C, f) == [shape |-> <<R, C>>, a |-> f]
Rows(d) == d.shape[1]
Cols(d) == d.shape[2]
IsBorder(R, C, c) == c[1] = 0 \/ c[1] = R - 1 \/ c[2] = 0 \/ c[2] = C - 1
IsInterior(R, C, c) == 0 < c[1] /\ c[1] < R - 1 /\ 0 < c[2] /\ c[2] < C - 1

\* ------------------------------------------------------- host kernel
\* np.gradient along the rows (axis 0): central differences inside, one-sided
\* first differences on the two edge rows
GradientRows(d) ==
    LET R == Rows(d) IN
    [c \in DOMAIN d.a |->
        IF c[1] = 0 THEN FSub(d.a[<<1, c[2]>>], d.a[<<0, c[2]>>])
        ELSE IF c[1] = R - 1 THEN FSub(d.a[<<R - 1, c[2]>>], d.a[<<R - 2, c[2]>>])
        ELSE FHalf(FSub(d.a[<<c[1] + 1, c[2]>>], d.a[<<c[1] - 1, c[2]>>]))]

\* np.gradient along the columns (axis 1)
GradientCols(d) ==
    LET C == Cols(d) IN
    [c \in DOMAIN d.a |->
        IF c[2] = 0 THEN FSub(d.a[<<c[1], 1>>], d.a[<<c[1], 0>>])
        ELSE IF c[2] = C - 1 THEN FSub(d.a[<<c[1], C - 1>>], d.a[<<c[1], C - 2>>])
        ELSE FHalf(FSub(d.a[<<c[1], c[2] + 1>>], d.a[<<c[1], c[2] - 1>>]))]

\* np.gradient needs at least two elements along every axis
GradientFails(d) == Rows(d) < 2 \/ Cols(d) < 2

\* lines 27-36 for one cell with gradients x, y
HostCell(x, y, az, alt) ==
    LET az2 == 360 - az
        slope == CSub("fin", CAtan(CSqrt(CAdd(CSq(Cls(x)), CSq(Cls(y))))))
        aspect == CAtan2(CNeg(Cls(x)), Cls(y))
        shaded == CAdd(CMul("fin", CSin(slope)),
                       CMul(CMul("fin", CCos(slope)),
                            CCos(CSub(CSub("fin", "fin"), aspect))))
        result == CMul(CAdd(shaded, "fin"), "fin")
    IN Value(result, x, y, az2, alt, 64)

\* fault model: only the first and last row are voided
HostBorderRowsOnly(R, C, c, val) == IF c[1] = 0 \/ c[1] = R - 1 THEN NaNOut ELSE val

\* result[(0, -1), :] = nan; result[:, (0, -1)] = nan
HostBorder(R, C, c, val) == IF IsBorder(R, C, c) THEN NaNOut ELSE val

\* _run_numpy on an array with at least two rows and two columns
RunNumpy(d, az, alt) ==
    LET x == GradientRows(d)
        y == GradientCols(d)
    IN Array(Rows(d), Cols(d),
             [c \in DOMAIN d.a |->
                 HostBorder(Rows(d), Cols(d), c, HostCell(x[c], y[c], az, alt))])

\* ---------------------------------------------------- tiled executor
\* fault model: an overlap of two cells
DepthTwo == 1 + 1

\* depth=(1, 1) of map_overlap
Depth == 1

RECURSIVE SumTo(_, _)
\* the sum of the first n chunk sizes
SumTo(ch, n) == IF n = 0 THEN 0 ELSE SumTo(ch, n - 1) + ch[n]

\* the first row (column) of chunk number a
Start(ch, a) == SumTo(ch, a - 1)
\* the chunk that holds row (column) i
ChunkOf(ch, i) == CHOOSE a \in 1 .. Len(ch) : Start(ch, a) <= i /\ i < Start(ch, a) + ch[a]

Tiles(chunks) == (1 .. Len(chunks[1])) \X (1 .. Len(chunks[2]))
\* the cells of the grid that tile t owns
TileCells(chunks, t) ==
    (Start(chunks[1], t[1]) .. Start(chunks[1], t[1]) + chunks[1][t[1]] - 1)
        \X (Start(chunks[2], t[2]) .. Start(chunks[2], t[2]) + chunks[2][t[2]] - 1)

\* boundary=np.nan: the grid with a ring of NaN of width depth around it
Boundaries(d, depth) ==
    Array(Rows(d) + 2 * depth, Cols(d) + 2 * depth,
          [p \in Cells(Rows(d) + 2 * depth, Cols(d) + 2 * depth) |->
              IF <<p[1] - depth, p[2] - depth>> \in DOMAIN d.a
              THEN d.a[<<p[1] - depth, p[2] - depth>>] ELSE NaN])

\* fault model: the block's halo holds no neighbour's cells, only NaN
OverlapBlockIsolated(d, chunks, t, depth) ==
    LET r0 == Start(chunks[1], t[1])
        c0 == Start(chunks[2], t[2])
        h == chunks[1][t[1]] + 2 * depth
        w == chunks[2][t[2]] + 2 * depth
    IN Array(h, w, [c \in Cells(h, w) |->
            IF /\ c[1] \in depth .. h - depth - 1
               /\ c[2] \in depth .. w - depth - 1
            THEN d.a[<<r0 + c[1] - depth, c0 + c[2] - depth>>] ELSE NaN])

\* the block handed to the kernel for tile t: its cells and depth more cells
\* on every side, taken from the neighbouring tiles or from the NaN ring
OverlapBlock(d, chunks, t, depth) ==
    LET padded == Boundaries(d, depth)
        r0 == Start(chunks[1], t[1])
        c0 == Start(chunks[2], t[2])
        h == chunks[1][t[1]] + 2 * depth
        w == chunks[2][t[2]] + 2 * depth
    IN Array(h, w, [c \in Cells(h, w) |-> padded.a[<<r0 + c[1], c0 + c[2]>>]])

\* the cells of the grid that the block of tile t is read from
BlockReads(d, chunks, t, depth) ==
    LET r0 == Start(chunks[1], t[1])
        c0 == Start(chunks[2], t[2])
        h == chunks[1][t[1]] + 2 * depth
        w == chunks[2][t[2]] + 2 * depth
    IN {<<r0 + c[1] - depth, c0 + c[2] - depth>> : c \in Cells(h, w)} \cap DOMAIN d.a

\* the kernel's output for a block with depth cells cut off every side
TrimInternal(blk, depth) ==
    Array(Rows(blk) - 2 * depth, Cols(blk) - 2 * depth,
          [c \in Cells(Rows(blk) - 2 * depth, Cols(blk) - 2 * depth) |->
              blk.a[<<c[1] + depth, c[2] + depth>>]])

\* one task of map_overlap: overlap, _func, trim
TileOut(d, chunks, t, az, alt) ==
    TrimInternal(RunNumpy(OverlapBlock(d, chunks, t, Depth), az, alt), Depth)

\* the cells of the output that the task of tile t fills: its own chunk
TileWrites(chunks, t) == TileCells(chunks, t)

\* the output array with the result of tile t put in its place
PlaceTile(out, chunks, t, res) ==
    LET r0 == Start(chunks[1], t[1])
        c0 == Start(chunks[2], t[2])
    IN [out EXCEPT !.a = [c \in DOMAIN out.a |->
            IF c \in TileWrites(chunks, t) THEN res.a[<<c[1] - r0, c[2] - c0>>]
            ELSE out.a[c]]]

\* _run_dask_numpy, computed: every cell comes from the task of its tile
RunDaskNumpy(d, chunks, az, alt) ==
    LET outs == [t \in Tiles(chunks) |-> TileOut(d, chunks, t, az, alt)]
    IN Array(Rows(d), Cols(d),
             [c \in DOMAIN d.a |->
                 LET t == <<ChunkOf(chunks[1], c[1]), ChunkOf(chunks[2], c[2])>>
                 IN outs[t].a[<<c[1] - Start(chunks[1], t[1]),
                                c[2] - Start(chunks[2], t[2])>>]])

\* ------------------------------------------------------ device kernel
\* cuda_args: threads per block along each axis, blocks to cover n cells
ThreadsPerBlock == 2
GridDim(n) == (n + ThreadsPerBlock - 1) \div ThreadsPerBlock
\* the coordinates cuda.grid(2) takes over the launch
LaunchCoords(R, C) ==
    (0 .. GridDim(R) * ThreadsPerBlock - 1) \X (0 .. GridDim(C) * ThreadsPerBlock - 1)

\* fault model: the first row passes the bounds test
KernelGuardLoose(i, j, R, C) == i >= 0 /\ i < R - 1 /\ j > 0 /\ j < C - 1

\* the kernel's bounds test (line 66)
KernelGuard(i, j, R, C) == i > 0 /\ i < R - 1 /\ j > 0 /\ j < C - 1

\* the input cells worker (i, j) reads
WorkerReads(i, j, R, C) ==
    IF KernelGuard(i, j, R, C)
    THEN {<<i + 1, j>>, <<i - 1, j>>, <<i, j + 1>>, <<i, j - 1>>}
    ELSE {}
\* the output cells worker (i, j) writes
WorkerWrites(i, j, R, C) == IF KernelGuard(i, j, R, C) THEN {<<i, j>>} ELSE {}

\* a read of the input; outside the buffer (never reached under the guard)
\* the value is unspecified
Load(d, c) == IF c \in DOMAIN d.a THEN d.a[c] ELSE NaN

\* lines 67-82 for gradients x, y; az2 is 360.0 - azimuth
GpuCell(x, y, az2, alt) ==
    LET len == CSqrt(CAdd(CSq(Cls(x)), CSq(Cls(y))))
        slope == CSub("fin", CAtan(len))
        aspect == CSub(CSub("fin", "fin"), CAtan2(CNeg(Cls(x)), Cls(y)))
        sin_part == CMul("fin", CSin(slope))
        cos_part == CMul(CMul("fin", CCos(slope)), CCos(aspect))
        res == CAdd(sin_part, cos_part)
    IN Value(CMul(CAdd(res, "fin"), "fin"), x, y, az2, alt, 32)

\* one worker of _gpu_calc_numba: the output buffer after it has run
GpuCalcNumba(d, output, i, j, az2, alt) ==
    IF KernelGuard(i, j, Rows(d), Cols(d)) /\ <<i, j>> \in DOMAIN output.a
    THEN LET x == FHalf(FSub(Load(d, <<i + 1, j>>), Load(d, <<i - 1, j>>)))
             y == FHalf(FSub(Load(d, <<i, j + 1>>), Load(d, <<i, j - 1>>)))
         IN [output EXCEPT !.a[<<i, j>>] = GpuCell(x, y, az2, alt)]
    ELSE output

\* the cells of lines 100-103: output[0, :], output[-1, :], output[:, 0],
\* output[:, -1]
BorderCells(R, C) == {c \in Cells(R, C) : IsBorder(R, C, c)}

\* the border pass
FillBorders(output) ==
    [output EXCEPT !.a = [c \in DOMAIN output.a |->
        IF c \in BorderCells(Rows(output), Cols(output)) THEN NaNOut ELSE output.a[c]]]

\* cupy.empty: a buffer whose contents are whatever the memory held
Empty(R, C, g) == Array(R, C, [c \in Cells(R, C) |-> g])

RECURSIVE LaunchAll(_, _, _, _, _)
\* the whole launch, the workers taken in the order of the sequence ws
LaunchAll(d, output, ws, az2, alt) ==
    IF ws = <<>> THEN output
    ELSE LaunchAll(d, GpuCalcNumba(d, output, Head(ws)[1], Head(ws)[2], az2, alt),
                   Tail(ws), az2, alt)

RECURSIVE SeqOf(_)
\* the elements of a finite set in some order
SeqOf(S) == IF S = {} THEN <<>>
            ELSE LET x == CHOOSE y \in S : TRUE IN <<x>> \o SeqOf(S \ {x})

\* _run_cupy with g the prior contents of the output buffer
RunCupy(d, az, alt, g) ==
    LET az2 == 360 - az
        output == Empty(Rows(d), Cols(d), g)
        after == LaunchAll(d, output, SeqOf(LaunchCoords(Rows(d), Cols(d))), az2, alt)
    IN FillBorders(after)

\* --------------------------------------------------------- dispatcher
Kinds == {"numpy", "cupy", "dask_numpy", "dask_cupy", "other"}
DaskKinds == {"dask_numpy", "dask_cupy"}
\* isinstance(agg.data, da.Array)
IsDaskArray(kind) == kind \in DaskKinds
\* is_cupy_backed(agg): the chunks of the dask array are cupy arrays
IsCupyBacked(kind) == kind = "dask_cupy"

\* the if/elif chain of hillshade: the branch taken for an input of the given
\* kind, with hc the value of has_cuda() and co whether "import cupy"
\* succeeded (otherwise cupy.ndarray is False and isinstance raises TypeError)
Dispatch(kind, hc, co) ==
    IF kind = "numpy" THEN "numpy"
    ELSE IF hc /\ ~co THEN "isinstance_error"
    ELSE IF hc /\ kind = "cupy" THEN "cupy"
    ELSE IF hc /\ IsDaskArray(kind) /\ IsCupyBacked(kind) THEN "dask_cupy"
    ELSE IF IsDaskArray(kind) THEN "dask_numpy"
    ELSE "unsupported"

\* fault model: the result is computed in place, in the input's buffer
ResultBufferInPlace(m, input) == input

\* the buffer a kernel's result lives in: a new one ((shaded + 1) / 2,
\* cupy.empty, the graph of map_overlap), never the input's
ResultBuffer(m, input) == Len(m) + 1
Store(m, b, arr) == IF b = Len(m) + 1 THEN Append(m, arr) ELSE [m EXCEPT ![b] = arr]

NoArray == [data |-> 0, name |-> "", coords |-> "", dims |-> "", attrs |-> ""]
\* xr.DataArray(out, name=name, coords=agg.coords, dims=agg.dims, attrs=agg.attrs)
DataArray(out, nm, a) ==
    [data |-> out, name |-> nm, coords |-> a.coords, dims |-> a.dims, attrs |-> a.attrs]

\* ----------------------------------------------------------- inputs
\* the elevation of cell c of the sample terrain (twice the value)
Elev(c) == Fin(2 * (c[1] * c[1] + 3 * c[2] * c[2] + c[1] * c[2]))
Specials == {NaN, PInf, NInf}
Terrain(R, C) == Array(R, C, [c \in Cells(R, C) |-> Elev(c)])
WithSpecial(R, C, s, sv) ==
    Array(R, C, [c \in Cells(R, C) |-> IF c = s THEN sv ELSE Elev(c)])
\* the sample terrain, and the terrain with one no-data cell
Grids(R, C) ==
    {Terrain(R, C)} \cup {WithSpecial(R, C, s, sv) : s \in Cells(R, C), sv \in Specials}

RECURSIVE Comps(_)
\* the ways to cut n rows (columns) into chunks
Comps(n) == IF n = 0 THEN {<<>>}
            ELSE UNION {{<<k>> \o s : s \in Comps(n - k)} : k \in 1 .. n}
Chunkings(kind, R, C) ==
    IF kind \in DaskKinds THEN Comps(R) \X Comps(C) ELSE {<<<<R>>, <<C>>>>}

Azimuths == {225, 90}
Altitudes == {25}
Names == {"hillshade", "Illumination"}
\* what cupy.empty may find in the memory it returns
StaleFinite == [k |-> "fin", x |-> Fin(0), y |-> Fin(0), az |-> 0, alt |-> 0, p |-> 0]
GarbageVals == {NaNOut, StaleFinite}

NoTasks == <<>>

InitCall(rows, cols) ==
    /\ \E R \in 1 .. rows, C \in 1 .. cols :
         \E g \in Grids(R, C), kind \in Kinds :
           \E ch \in Chunkings(kind, R, C) :
             /\ agg = [kind |-> kind, data |-> 1, chunks |-> ch,
                       coords |-> "y,x", dims |-> "(y,x)", attrs |-> "res=1"]
             /\ mem = <<g>>
    /\ has_cuda \in BOOLEAN
    /\ cupy_ok \in BOOLEAN
    /\ agg.kind \in {"cupy", "dask_cupy"} => cupy_ok
    /\ azimuth \in Azimuths
    /\ angle_altitude \in Altitudes
    /\ name \in Names
    /\ pc = "call"
    /\ ret = NoArray
    /\ exc = "none"
    /\ kernels = <<>>
    /\ pre = [agg |-> agg, data |-> mem[1]]
    /\ done = {}
    /\ reads = NoTasks
    /\ writes = NoTasks
    /\ bwritten = {}

Init == InitCall(MaxRows, MaxCols)

Branch == Dispatch(agg.kind, has_cuda, cupy_ok)
Idle == UNCHANGED <<agg, has_cuda, cupy_ok, azimuth, angle_altitude, name, pre,
                    done, reads, writes, bwritten>>

Return(out) ==
    /\ ret' = DataArray(out, name, agg)
    /\ pc' = "returned"
    /\ exc' = "none"

Raise(e) ==
    /\ exc' = e
    /\ pc' = "raised"
    /\ UNCHANGED <<ret, mem>>

\* hillshade on a numpy array
HillshadeNumpy ==
    /\ pc = "call"
    /\ Branch = "numpy"
    /\ kernels' = Append(kernels, "_run_numpy")
    /\ IF GradientFails(mem[agg.data])
       THEN Raise("ValueError")
       ELSE LET b == ResultBuffer(mem, agg.data) IN
            /\ mem' = Store(mem, b, RunNumpy(mem[agg.data], azimuth, angle_altitude))
            /\ Return(b)
    /\ Idle

\* hillshade on a cupy array with a CUDA device present
HillshadeCupy ==
    /\ pc = "call"
    /\ Branch = "cupy"
    /\ kernels' = Append(kernels, "_run_cupy")
    /\ \E g \in GarbageVals :
         LET b == ResultBuffer(mem, agg.data) IN
         /\ mem' = Store(mem, b, RunCupy(mem[agg.data], azimuth, angle_altitude, g))
         /\ Return(b)
    /\ Idle

\* hillshade on a cupy-backed dask array with a CUDA device present
HillshadeDaskCupy ==
    /\ pc = "call"
    /\ Branch = "dask_cupy"
    /\ Raise("NotImplementedError")
    /\ UNCHANGED kernels
    /\ Idle

\* hillshade on any other dask array
HillshadeDaskNumpy ==
    /\ pc = "call"
    /\ Branch = "dask_numpy"
    /\ kernels' = Append(kernels, "_run_dask_numpy")
    /\ LET b == ResultBuffer(mem, agg.data) IN
       /\ mem' = Store(mem, b, RunDaskNumpy(mem[agg.data], agg.chunks,
                                             azimuth, angle_altitude))
       /\ Return(b)
    /\ Idle

\* hillshade on anything else
HillshadeUnsupported ==
    /\ pc = "call"
    /\ Branch = "unsupported"
    /\ Raise("TypeError")
    /\ UNCHANGED kernels
    /\ Idle

\* hillshade where isinstance(agg.data, cupy.ndarray) is evaluated without cupy
HillshadeIsinstanceError ==
    /\ pc = "call"
    /\ Branch = "isinstance_error"
    /\ Raise("TypeError")
    /\ UNCHANGED kernels
    /\ Idle

Next ==
    \/ HillshadeNumpy
    \/ HillshadeCupy
    \/ HillshadeDaskCupy
    \/ HillshadeDaskNumpy
    \/ HillshadeUnsupported
    \/ HillshadeIsinstanceError

Spec == Init /\ [][Next]_vars

\* ------------------------------------------- the tiled executor, by task
\* a cell of an output chunk that no task has produced yet
Pending == [k |-> "pending", x |-> NaN, y |-> NaN, az |-> 0, alt |-> 0, p |-> 0]

\* the inputs of the task-level runs: the terrain, and the terrain with a
\* no-data cell in its middle
FewGrids(R, C) == {Terrain(R, C), WithSpecial(R, C, <<R \div 2, C \div 2>>, NaN)}

\* f with task t mapped to v
Logged(f, t, v) == [u \in DOMAIN f \cup {t} |-> IF u = t THEN v ELSE f[u]]

InitRun(kind, hc, R, C, g, ch, first) ==
    /\ agg = [kind |-> kind, data |-> 1, chunks |-> ch,
              coords |-> "y,x", dims |-> "(y,x)", attrs |-> "res=1"]
    /\ mem = <<g, Empty(R, C, first)>>
    /\ has_cuda = hc
    /\ cupy_ok = hc
    /\ azimuth = 225
    /\ angle_altitude = 25
    /\ name = "hillshade"
    /\ pc = "compute"
    /\ ret = NoArray
    /\ exc = "none"
    /\ kernels = <<>>
    /\ pre = [agg |-> agg, data |-> g]
    /\ done = {}
    /\ reads = NoTasks
    /\ writes = NoTasks
    /\ bwritten = {}

\* the chunkings of at most MaxChunks chunks along each axis
FewChunkings(R, C) ==
    {ch \in Comps(R) \X Comps(C) : Len(ch[1]) <= MaxChunks /\ Len(ch[2]) <= MaxChunks}

\* _run_dask_numpy has built the graph; no task has run
InitTiled ==
    \E R \in 1 .. TileMaxRows, C \in 1 .. TileMaxCols :
      \E g \in FewGrids(R, C), ch \in FewChunkings(R, C) :
        InitRun("dask_numpy", FALSE, R, C, g, ch, Pending)

Quiet == UNCHANGED <<agg, has_cuda, cupy_ok, azimuth, angle_altitude, name, pre,
                     exc, kernels>>

\* a worker of the scheduler runs the task of tile t
ComputeTile(t) ==
    /\ pc = "compute"
    /\ t \in Tiles(agg.chunks) \ done
    /\ mem' = [mem EXCEPT ![2] =
                  PlaceTile(mem[2], agg.chunks, t,
                            TileOut(mem[1], agg.chunks, t, azimuth, angle_altitude))]
    /\ reads' = Logged(reads, t, BlockReads(mem[1], agg.chunks, t, Depth))
    /\ writes' = Logged(writes, t, TileWrites(agg.chunks, t))
    /\ done' = done \cup {t}
    /\ UNCHANGED <<pc, ret, bwritten>>
    /\ Quiet

\* every task has run: the result is complete
JoinTiles ==
    /\ pc = "compute"
    /\ done = Tiles(agg.chunks)
    /\ pc' = "returned"
    /\ ret' = DataArray(2, name, agg)
    /\ UNCHANGED <<mem, reads, writes, done, bwritten>>
    /\ Quiet

NextTiled ==
    \/ \E t \in Tiles(agg.chunks) : ComputeTile(t)
    \/ JoinTiles

SpecTiled == InitTiled /\ [][NextTiled]_vars

\* ------------------------------------------- the device path, by worker
\* a cell of the buffer of cupy.empty that nothing has written: its content is
\* indeterminate until somebody reads it
Uninit == [k |-> "uninit", x |-> NaN, y |-> NaN, az |-> 0, alt |-> 0, p |-> 0]
\* what the caller finds in the buffer: any content in the unwritten cells
Observed(output, g) ==
    [output EXCEPT !.a = [c \in DOMAIN output.a |->
        IF output.a[c] = Uninit THEN g ELSE output.a[c]]]

\* _run_cupy has allocated the output and launched the kernel
InitDevice ==
    \E R \in 1 .. DevMaxRows, C \in 1 .. DevMaxCols :
      InitRun("cupy", TRUE, R, C, Terrain(R, C), <<<<R>>, <<C>>>>, Uninit)

\* the kernel has finished: the border pass follows the launch on the stream
KernelComplete(finished, R, C) == finished = LaunchCoords(R, C)

\* the worker at launch coordinate w runs
Worker(w) ==
    /\ pc = "compute"
    /\ w \in LaunchCoords(Rows(mem[1]), Cols(mem[1])) \ done
    /\ mem' = [mem EXCEPT ![2] =
                  GpuCalcNumba(mem[1], mem[2], w[1], w[2], 360 - azimuth, angle_altitude)]
    /\ reads' = Logged(reads, w, WorkerReads(w[1], w[2], Rows(mem[1]), Cols(mem[1])))
    /\ writes' = Logged(writes, w, WorkerWrites(w[1], w[2], Rows(mem[1]), Cols(mem[1])))
    /\ done' = done \cup {w}
    /\ UNCHANGED <<pc, ret, bwritten>>
    /\ Quiet

\* lines 100-103
BorderPass ==
    /\ pc = "compute"
    /\ KernelComplete(done, Rows(mem[1]), Cols(mem[1]))
    /\ mem' = [mem EXCEPT ![2] = FillBorders(mem[2])]
    /\ bwritten' = BorderCells(Rows(mem[2]), Cols(mem[2]))
    /\ pc' = "borders"
    /\ UNCHANGED <<ret, reads, writes, done>>
    /\ Quiet

\* return output
ReturnOutput ==
    /\ pc = "borders"
    /\ pc' = "returned"
    /\ ret' = DataArray(2, name, agg)
    /\ \E g \in GarbageVals : mem' = [mem EXCEPT ![2] = Observed(mem[2], g)]
    /\ UNCHANGED <<reads, writes, done, bwritten>>
    /\ Quiet

NextDevice ==
    \/ \E w \in LaunchCoords(Rows(mem[1]), Cols(mem[1])) : Worker(w)
    \/ BorderPass
    \/ ReturnOutput

SpecDevice == InitDevice /\ [][NextDevice]_vars

\* ------------------------------------------------------------- claims
InR == Rows(pre.data)
InC == Cols(pre.data)
Returned == pc = "returned"
Output == mem[ret.data]
\* the four neighbours the gradient of cell c is taken from
Stencil(c) == {<<c[1] - 1, c[2]>>, <<c[1] + 1, c[2]>>, <<c[1], c[2] - 1>>, <<c[1], c[2] + 1>>}
\* cell c lies next to a seam between two tiles
OnSeam(chunks, c) ==
    \/ \E a \in 2 .. Len(chunks[1]) : c[1] \in {Start(chunks[1], a) - 1, Start(chunks[1], a)}
    \/ \E b \in 2 .. Len(chunks[2]) : c[2] \in {Start(chunks[2], b) - 1, Start(chunks[2], b)}

\* C1: when hillshade has returned through the tiled path, on a grid of at
\* least 2 x 2 cells under any chunking and lighting, every interior cell of
\* the reassembled output equals that cell of _run_numpy on the whole grid.
C1_TiledEqualsHostInside ==
    (Returned /\ kernels = <<"_run_dask_numpy">> /\ InR >= 2 /\ InC >= 2) =>
        \A c \in Cells(InR, InC) :
            IsInterior(InR, InC, c) =>
                Output.a[c] = RunNumpy(pre.data, azimuth, angle_altitude).a[c]

\* C1 witness: a tiled run has returned a finite value at an interior cell that
\* lies on a seam in both directions.
C1_Witness ==
    /\ Returned
    /\ kernels = <<"_run_dask_numpy">>
    /\ \E c \in Cells(InR, InC) :
         /\ IsInterior(InR, InC, c)
         /\ Len(agg.chunks[1]) > 1
         /\ Len(agg.chunks[2]) > 1
         /\ OnSeam(agg.chunks, c)
         /\ Output.a[c].k = "fin"

\* C2: whenever hillshade returns a grid of at least 2 x 2 cells (host, device
\* or tiled under any chunking), every cell of its first and last row and of
\* its first and last column is NaN.
C2_BorderUndefined ==
    (Returned /\ InR >= 2 /\ InC >= 2) =>
        /\ Output.shape = <<InR, InC>>
        /\ \A c \in Cells(InR, InC) : IsBorder(InR, InC, c) => Output.a[c] = NaNOut

\* C2 witness: a tiled run over several chunks has returned a grid with an
\* interior, a finite interior value and a NaN border ring.
C2_Witness ==
    /\ Returned
    /\ kernels = <<"_run_dask_numpy">>
    /\ Len(agg.chunks[1]) > 1
    /\ InR >= 3
    /\ InC >= 3
    /\ \E c \in Cells(InR, InC) : Output.a[c].k = "fin"
    /\ \A c \in Cells(InR, InC) : IsBorder(InR, InC, c) => Output.a[c] = NaNOut

\* the outcome the dispatch table names for an input kind
TableOutcome(kind, hc) ==
    IF kind = "numpy" THEN "host"
    ELSE IF kind = "cupy" /\ hc THEN "device"
    ELSE IF kind = "dask_numpy" THEN "tiled"
    ELSE IF kind = "dask_cupy" /\ hc THEN "unimplemented"
    ELSE "unsupported"

\* the outcome the call had
Outcome ==
    IF kernels = <<"_run_numpy">> THEN "host"
    ELSE IF kernels = <<"_run_cupy">> THEN "device"
    ELSE IF kernels = <<"_run_dask_numpy">> THEN "tiled"
    ELSE IF kernels = <<>> /\ pc = "raised" /\ exc = "NotImplementedError" THEN "unimplemented"
    ELSE IF kernels = <<>> /\ pc = "raised" /\ exc = "TypeError" THEN "unsupported"
    ELSE "none"

\* C3: once hillshade has acted (cupy being importable), its outcome is the
\* one of the dispatch table for the input's kind, a rejection has invoked no
\* kernel, and at most one kernel has been invoked.
C3_DispatchTable ==
    (pc # "call" /\ cupy_ok) =>
        /\ Outcome = TableOutcome(agg.kind, has_cuda)
        /\ Len(kernels) <= 1

\* C4: a tiled input with device-resident tiles is rejected with
\* NotImplementedError and reaches no kernel, whatever has_cuda() returns.
C4_DeviceTiledRejected ==
    (pc # "call" /\ agg.kind = "dask_cupy") =>
        /\ pc = "raised"
        /\ exc = "NotImplementedError"
        /\ kernels = <<>>

\* C5: in every returned grid, an interior cell with a NaN or infinite input
\* value among the neighbours of its gradient stencil is NaN.
C5_NoDataPropagates ==
    Returned =>
        \A c \in Cells(InR, InC) :
            (/\ IsInterior(InR, InC, c)
             /\ \E n \in Stencil(c) : IsNaN(pre.data.a[n]) \/ IsInf(pre.data.a[n]))
                => Output.a[c] = NaNOut

\* C6: on a host-resident input hillshade returns a grid of the input's shape,
\* and that grid is all NaN when the input has fewer than 2 rows or columns.
C6_SmallGridAllUndefined ==
    (pc # "call" /\ agg.kind = "numpy") =>
        /\ Returned
        /\ Output.shape = <<InR, InC>>
        /\ (InR < 2 \/ InC < 2) => \A c \in Cells(InR, InC) : Output.a[c] = NaNOut

\* C7: on a device-resident input without an accelerator hillshade raises a
\* failure that is not the unsupported-kind TypeError, and invokes no kernel.
C7_AcceleratorUnavailable ==
    (pc # "call" /\ agg.kind = "cupy" /\ ~has_cuda) =>
        /\ pc = "raised"
        /\ exc \notin {"none", "TypeError"}
        /\ kernels = <<>>

\* C8: after hillshade, on every path, agg and the contents of its buffer are
\* what they were at the call; a returned array lives in a buffer allocated by
\* the call, not agg's, and carries agg's coords, dims and attrs and the
\* caller's name.
C8_InputUntouched ==
    pc # "call" =>
        /\ agg = pre.agg
        /\ mem[agg.data] = pre.data
        /\ Returned =>
            /\ ret.data # agg.data
            /\ ret.data = Len(mem)
            /\ Len(mem) = 2
            /\ ret.coords = pre.agg.coords
            /\ ret.dims = pre.agg.dims
            /\ ret.attrs = pre.agg.attrs
            /\ ret.name = name

\* C8 witness: a call under a name of the caller's has returned a grid that
\* differs from its input.
C8_Witness ==
    /\ Returned
    /\ name = "Illumination"
    /\ kernels = <<"_run_numpy">>
    /\ Output.a # pre.data.a
    /\ \E c \in Cells(InR, InC) : Output.a[c].k = "fin"

\* the cells within one cell of the cells of tile t
Halo(chunks, t) ==
    {c \in Cells(InR, InC) :
        \E o \in TileCells(chunks, t) :
            /\ c[1] - o[1] \in -1 .. 1
            /\ c[2] - o[2] \in -1 .. 1}

\* C9: in the tiled executor, in every order of the tasks, (1) a task has read
\* only the cells of its tile and of the one-cell halo around it, (2) no cell
\* of the output is written by two tasks and, at the join, every cell has been
\* written by one, (3) every cell written holds the value _run_dask_numpy
\* gives it whatever ran before, the others none, so the joined output is the
\* same grid in every order.
C9_TilesIndependent ==
    /\ \A t \in done : reads[t] \subseteq Halo(agg.chunks, t)
    /\ \A t, u \in done : t # u => writes[t] \cap writes[u] = {}
    /\ \A c \in Cells(InR, InC) :
         mem[2].a[c] = IF \E t \in done : c \in writes[t]
                       THEN RunDaskNumpy(mem[1], agg.chunks, azimuth, angle_altitude).a[c]
                       ELSE Pending
    /\ Returned => \A c \in Cells(InR, InC) :
                     Cardinality({t \in done : c \in writes[t]}) = 1

\* C9 witness: four tiles have been computed and joined, a task has read cells
\* of a neighbouring tile, and an interior value is finite.
C9_Witness ==
    /\ Returned
    /\ Cardinality(done) = 4
    /\ \E t \in done : reads[t] \ writes[t] # {}
    /\ \E c \in Cells(InR, InC) : mem[2].a[c].k = "fin"

====
